---------------------------- MODULE Spec2Model ----------------------------
(***************************************************************************)
(* serde_yaml::Value: the merge-key resolver (Value::apply_merge,          *)
(* src/src/value/mod.rs) and the indexing capability (value::Index,        *)
(* src/src/value/index.rs), as a state machine over one Value tree.        *)
(*                                                                         *)
(* A Value is a record with a field t naming its variant.  A Mapping's     *)
(* payload is the sequence of its entries [k, v] in insertion order; a     *)
(* reference into the tree (&Value, &mut Value) is a path: the sequence of *)
(* child positions leading from the root to the node.                      *)
(***************************************************************************)
EXTENDS Integers, Sequences, FiniteSets

VARIABLES
    root,      \* the Value tree owned by the caller
    orig,      \* *self as it was when apply_merge was entered
    stack,     \* apply_merge's work stack of &mut Value (paths into root)
    pc,        \* "idle" | "merge" (in apply_merge's loop) | "read" | "got" | "write" | "panic"
    result,    \* what the last apply_merge returned: "none", "Ok" or an ErrorImpl kind
    calls,     \* number of apply_merge calls made
    rd,        \* the &Value a chain of bracket-reads has reached
    wr,        \* the &mut Value a chain of bracket-writes has reached
    chain,     \* the indices of the bracket-write statement under way
    depth,     \* number of brackets of the expression under way
    base,      \* the tree as it was when the expression under way began
    wrote,     \* a bracket-write statement has been begun
    last       \* the last indexing operation: its index, its target, what it returned

vars == <<root, orig, stack, pc, result, calls, rd, wr, chain, depth, base, wrote, last>>
mergeVars == <<orig, stack, calls>>
indexVars == <<rd, wr, chain, depth, base, wrote, last>>

---------------------------------------------------------------------------
(* enum Value *)

Null == [t |-> "Null"]
Bool(b) == [t |-> "Bool", b |-> b]
Number(n) == [t |-> "Number", n |-> n]
String(s) == [t |-> "String", s |-> s]
Sequence(vec) == [t |-> "Sequence", vec |-> vec]
Mapping(map) == [t |-> "Mapping", map |-> map]
Tagged(tag, value) == [t |-> "Tagged", tag |-> tag, value |-> value]

None == [t |-> "None"]
Some(x) == [t |-> "Some", x |-> x]

(* The merge key as the borrowed text mapping.remove("<<") looks up: it    *)
(* matches the String-variant key with that text and no other key.         *)
MergeKey == String("<<")

---------------------------------------------------------------------------
(* Mapping (the ordered container of crate::mapping): entries in insertion *)
(* order, at most one per key.                                             *)

Entry(k, v) == [k |-> k, v |-> v]

MapFind(map, k) ==
    LET S == {i \in 1..Len(map) : map[i].k = k}
    IN  IF S = {} THEN 0 ELSE CHOOSE i \in S : \A j \in S : i <= j

MapHas(map, k) == MapFind(map, k) # 0

MapGet(map, k) ==
    IF MapHas(map, k) THEN Some(map[MapFind(map, k)].v) ELSE None

MapRemove(map, k) ==
    LET i == MapFind(map, k)
    IN  IF i = 0 THEN map
        ELSE SubSeq(map, 1, i - 1) \o SubSeq(map, i + 1, Len(map))

(* map.entry(k).or_insert(v) *)
MapOrInsert(map, k, v) ==
    IF MapHas(map, k) THEN map ELSE Append(map, Entry(k, v))

MapKeys(map) == {map[i].k : i \in 1..Len(map)}

UniqueKeys(map) == \A i, j \in 1..Len(map) : map[i].k = map[j].k => i = j

---------------------------------------------------------------------------
(* References into the tree.                                               *)

Children(v) ==
    CASE v.t = "Mapping"  -> [i \in 1..Len(v.map) |-> v.map[i].v]
      [] v.t = "Sequence" -> v.vec
      [] v.t = "Tagged"   -> <<v.value>>
      [] OTHER            -> <<>>

RECURSIVE ValueAt(_, _)
ValueAt(v, p) ==
    IF p = <<>> THEN v ELSE ValueAt(Children(v)[Head(p)], Tail(p))

RECURSIVE ReplaceAt(_, _, _)
ReplaceAt(v, p, new) ==
    IF p = <<>> THEN new
    ELSE LET i == Head(p)
             sub == ReplaceAt(Children(v)[i], Tail(p), new)
         IN  CASE v.t = "Mapping"  ->
                    Mapping([v.map EXCEPT ![i] = Entry(v.map[i].k, sub)])
               [] v.t = "Sequence" -> Sequence([v.vec EXCEPT ![i] = sub])
               [] v.t = "Tagged"   -> Tagged(v.tag, sub)

(* as ChildPaths below, with the node itself pushed back under its         *)
(* children, to be looked at again                                         *)
ChildPaths_and_self(p, v) == <<p>> \o [i \in 1..Len(Children(v)) |-> Append(p, i)]

(* stack.extend(mapping.values_mut()), stack.extend(sequence),             *)
(* stack.push(&mut tagged.value): the places of v's children, v being at p *)
ChildPaths(p, v) == [i \in 1..Len(Children(v)) |-> Append(p, i)]

RECURSIVE Paths(_)
Paths(v) ==
    {<<>>} \cup UNION {{<<i>> \o q : q \in Paths(Children(v)[i])}
                        : i \in 1..Len(Children(v))}

---------------------------------------------------------------------------
(* Value::apply_merge *)

(* as merge_entries, with every entry of the source pushed onto the        *)
(* mapping without a lookup of its key                                     *)
merge_entries_append(mapping, merge) == mapping \o merge

(* as merge_entries, with mapping.insert(k, v) for entry(k).or_insert(v):  *)
(* the merged value replaces the one the mapping had                       *)
RECURSIVE merge_entries_overwrite(_, _)
merge_entries_overwrite(mapping, merge) ==
    IF merge = <<>> THEN mapping
    ELSE LET k == Head(merge).k
             i == MapFind(mapping, k)
             put == IF i = 0 THEN Append(mapping, Head(merge))
                    ELSE [mapping EXCEPT ![i] = Head(merge)]
         IN  merge_entries_overwrite(put, Tail(merge))

(* for (k, v) in merge { mapping.entry(k).or_insert(v); } *)
RECURSIVE merge_entries(_, _)
merge_entries(mapping, merge) ==
    IF merge = <<>> THEN mapping
    ELSE merge_entries(MapOrInsert(mapping, Head(merge).k, Head(merge).v),
                       Tail(merge))

(* as merge_sequence below, folding the elements from the last to the      *)
(* first                                                                   *)
RECURSIVE merge_sequence_from_last(_, _)
merge_sequence_from_last(mapping, sequence) ==
    IF sequence = <<>> THEN [map |-> mapping, err |-> "Ok"]
    ELSE LET value == sequence[Len(sequence)]
             front == SubSeq(sequence, 1, Len(sequence) - 1)
         IN  CASE value.t = "Mapping"  ->
                    merge_sequence_from_last(merge_entries(mapping, value.map), front)
               [] value.t = "Sequence" ->
                    [map |-> mapping, err |-> "SequenceInMergeElement"]
               [] value.t = "Tagged"   ->
                    [map |-> mapping, err |-> "TaggedInMerge"]
               [] OTHER                ->
                    [map |-> mapping, err |-> "ScalarInMergeElement"]

(* for value in sequence { match value { ... } }: the mapping as the loop  *)
(* left it, and the error it returned with, if any.                        *)
RECURSIVE merge_sequence(_, _)
merge_sequence(mapping, sequence) ==
    IF sequence = <<>> THEN [map |-> mapping, err |-> "Ok"]
    ELSE LET value == Head(sequence)
         IN  CASE value.t = "Mapping"  ->
                    merge_sequence(merge_entries(mapping, value.map), Tail(sequence))
               [] value.t = "Sequence" ->
                    [map |-> mapping, err |-> "SequenceInMergeElement"]
               [] value.t = "Tagged"   ->
                    [map |-> mapping, err |-> "TaggedInMerge"]
               [] OTHER                ->
                    [map |-> mapping, err |-> "ScalarInMergeElement"]

(* as resolve_mapping below, without the arm for Some(Value::Tagged(_)):   *)
(* a Tagged "<<" value falls to the arm of the unexpected values           *)
resolve_mapping_no_tagged_arm(mapping) ==
    LET removed == MapGet(mapping, MergeKey)
        rest == MapRemove(mapping, MergeKey)
    IN  IF removed = None THEN [map |-> mapping, err |-> "Ok"]
        ELSE LET m == removed.x
             IN  CASE m.t = "Mapping"  ->
                        [map |-> merge_entries(rest, m.map), err |-> "Ok"]
                   [] m.t = "Sequence" -> merge_sequence(rest, m.vec)
                   [] OTHER            -> [map |-> rest, err |-> "ScalarInMerge"]

(* as resolve_mapping below, with the last arm written _unexpected, as in  *)
(* the match on the elements, and placed before None: an absent "<<" is    *)
(* refused                                                                 *)
resolve_mapping_absent_refused(mapping) ==
    LET removed == MapGet(mapping, MergeKey)
        rest == MapRemove(mapping, MergeKey)
    IN  IF removed = None THEN [map |-> mapping, err |-> "ScalarInMerge"]
        ELSE LET m == removed.x
             IN  CASE m.t = "Mapping"  ->
                        [map |-> merge_entries(rest, m.map), err |-> "Ok"]
                   [] m.t = "Sequence" -> merge_sequence(rest, m.vec)
                   [] m.t = "Tagged"   -> [map |-> rest, err |-> "TaggedInMerge"]
                   [] OTHER            -> [map |-> rest, err |-> "ScalarInMerge"]

(* as resolve_mapping below, with the mapping put back as it was when the   *)
(* merge is refused                                                        *)
resolve_mapping_rollback(mapping) ==
    LET removed == MapGet(mapping, MergeKey)
        rest == MapRemove(mapping, MergeKey)
        r == IF removed = None THEN [map |-> mapping, err |-> "Ok"]
             ELSE LET m == removed.x
                  IN  CASE m.t = "Mapping"  ->
                             [map |-> merge_entries(rest, m.map), err |-> "Ok"]
                        [] m.t = "Sequence" -> merge_sequence(rest, m.vec)
                        [] m.t = "Tagged"   -> [map |-> rest, err |-> "TaggedInMerge"]
                        [] OTHER            -> [map |-> rest, err |-> "ScalarInMerge"]
    IN  IF r.err = "Ok" THEN r ELSE [map |-> mapping, err |-> r.err]

(* match mapping.remove("<<") { ... } *)
resolve_mapping(mapping) ==
    LET removed == MapGet(mapping, MergeKey)
        rest == MapRemove(mapping, MergeKey)
    IN  IF removed = None THEN [map |-> mapping, err |-> "Ok"]
        ELSE LET m == removed.x
             IN  CASE m.t = "Mapping"  ->
                        [map |-> merge_entries(rest, m.map), err |-> "Ok"]
                   [] m.t = "Sequence" -> merge_sequence(rest, m.vec)
                   [] m.t = "Tagged"   -> [map |-> rest, err |-> "TaggedInMerge"]
                   [] OTHER            -> [map |-> rest, err |-> "ScalarInMerge"]

---------------------------------------------------------------------------
(* value::Index: the index kinds, and Value::untag_ref / untag_mut         *)

USize(i) == [kind |-> "usize", i |-> i]
Str(s) == [kind |-> "str", s |-> s]
Val(v) == [kind |-> "Value", v |-> v]

(* the key a text or Value index stands for: index.to_owned().into(); a    *)
(* Mapping looked up by borrowed text finds the String key with that text  *)
KeyOf(index) == IF index.kind = "str" THEN String(index.s) ELSE index.v

(* strips every enclosing Tagged wrapper *)
RECURSIVE untag_ref(_)
untag_ref(v) == IF v.t = "Tagged" THEN untag_ref(v.value) ELSE v

(* where untag_ref's result lies below v *)
RECURSIVE untag_path(_)
untag_path(v) == IF v.t = "Tagged" THEN <<1>> \o untag_path(v.value) ELSE <<>>

untag_mut(v) == untag_ref(v)

(* map.get(k) / map.get_mut(k) as a reference: the entry's place below up *)
MapGetRef(map, k, up) ==
    IF MapHas(map, k) THEN Some(Append(up, MapFind(map, k))) ELSE None

(* as usize_index_into below, without the arm for Value::Mapping *)
usize_index_into_sequence_only(i, v) ==
    LET u == untag_ref(v)
    IN  CASE u.t = "Sequence" ->
               IF i < Len(u.vec) THEN Some(Append(untag_path(v), i + 1)) ELSE None
          [] OTHER            -> None

(* impl Index for usize: index_into *)
usize_index_into(i, v) ==
    LET u == untag_ref(v)
    IN  CASE u.t = "Sequence" ->
               IF i < Len(u.vec) THEN Some(Append(untag_path(v), i + 1)) ELSE None
          [] u.t = "Mapping"  -> MapGetRef(u.map, Number(i), untag_path(v))
          [] OTHER            -> None

(* impl Index for usize: index_into_mut *)
usize_index_into_mut(i, v) ==
    LET u == untag_mut(v)
    IN  CASE u.t = "Sequence" ->
               IF i < Len(u.vec) THEN Some(Append(untag_path(v), i + 1)) ELSE None
          [] u.t = "Mapping"  -> MapGetRef(u.map, Number(i), untag_path(v))
          [] OTHER            -> None

index_into_mapping(index, v) ==
    LET u == untag_ref(v)
    IN  CASE u.t = "Mapping" -> MapGetRef(u.map, KeyOf(index), untag_path(v))
          [] OTHER           -> None

index_into_mut_mapping(index, v) ==
    LET u == untag_mut(v)
    IN  CASE u.t = "Mapping" -> MapGetRef(u.map, KeyOf(index), untag_path(v))
          [] OTHER           -> None

(* Index::index_into for usize, str, String, Value and references to them *)
index_into(index, v) ==
    IF index.kind = "usize" THEN usize_index_into(index.i, v)
    ELSE index_into_mapping(index, v)

index_into_mut(index, v) ==
    IF index.kind = "usize" THEN usize_index_into_mut(index.i, v)
    ELSE index_into_mut_mapping(index, v)

(* Value::get and Value::get_mut: the value referred to, if any *)
get(index, v) ==
    LET r == index_into(index, v)
    IN  IF r = None THEN None ELSE Some(ValueAt(v, r.x))

get_mut(index, v) ==
    LET r == index_into_mut(index, v)
    IN  IF r = None THEN None ELSE Some(ValueAt(v, r.x))

(* What index_or_insert did: the target as it left it, the place of the    *)
(* returned &mut Value below the target, or a panic (target untouched).    *)
Inserted(v, ret) == [v |-> v, ret |-> ret, panic |-> FALSE]
Panicked(v) == [v |-> v, ret |-> <<>>, panic |-> TRUE]

(* below a Tagged wrapper: v = &mut tagged.value *)
UnderTag(tagged, r) ==
    [v |-> Tagged(tagged.tag, r.v), ret |-> <<1>> \o r.ret, panic |-> r.panic]

(* as EntryOrInsertNull below, with map.insert(k, Value::Null): an entry   *)
(* the mapping had is reset to Null                                        *)
EntryInsertNull(map, k) ==
    LET i == MapFind(map, k)
        m == IF i = 0 THEN Append(map, Entry(k, Null))
             ELSE [map EXCEPT ![i] = Entry(k, Null)]
    IN  Inserted(Mapping(m), <<MapFind(m, k)>>)

(* map.entry(k).or_insert(Value::Null) *)
EntryOrInsertNull(map, k) ==
    LET m == MapOrInsert(map, k, Null)
    IN  Inserted(Mapping(m), <<MapFind(m, k)>>)

(* as usize_index_or_insert below, with the Sequence resized to hold the    *)
(* index (filled with Null) where the code panics on an index past the end *)
RECURSIVE usize_index_or_insert_grow(_, _)
usize_index_or_insert_grow(i, v) ==
    CASE v.t = "Sequence" ->
           IF i < Len(v.vec) THEN Inserted(v, <<i + 1>>)
           ELSE Inserted(Sequence(v.vec \o [j \in 1..(i + 1 - Len(v.vec)) |-> Null]),
                         <<i + 1>>)
      [] v.t = "Mapping"  -> EntryOrInsertNull(v.map, Number(i))
      [] v.t = "Tagged"   -> UnderTag(v, usize_index_or_insert_grow(i, v.value))
      [] OTHER            -> Panicked(v)

(* impl Index for usize: index_or_insert *)
RECURSIVE usize_index_or_insert(_, _)
usize_index_or_insert(i, v) ==
    CASE v.t = "Sequence" ->
           IF i < Len(v.vec) THEN Inserted(v, <<i + 1>>) ELSE Panicked(v)
      [] v.t = "Mapping"  -> EntryOrInsertNull(v.map, Number(i))
      [] v.t = "Tagged"   -> UnderTag(v, usize_index_or_insert(i, v.value))
      [] OTHER            -> Panicked(v)

(* the loop of index_or_insert_mapping *)
RECURSIVE index_or_insert_mapping_loop(_, _)
index_or_insert_mapping_loop(index, v) ==
    CASE v.t = "Mapping" -> EntryOrInsertNull(v.map, KeyOf(index))
      [] v.t = "Tagged"  -> UnderTag(v, index_or_insert_mapping_loop(index, v.value))
      [] OTHER           -> Panicked(v)

(* as index_or_insert_mapping below, starting a new Mapping whenever the   *)
(* target has no entry for the key, not only when it is Null               *)
index_or_insert_mapping_fresh(index, v) ==
    IF v = Null \/ (v.t = "Mapping" /\ ~MapHas(v.map, KeyOf(index)))
    THEN Inserted(Mapping(<<Entry(KeyOf(index), Null)>>), <<1>>)
    ELSE index_or_insert_mapping_loop(index, v)

index_or_insert_mapping(index, v) ==
    IF v = Null
    THEN Inserted(Mapping(<<Entry(KeyOf(index), Null)>>), <<1>>)
    ELSE index_or_insert_mapping_loop(index, v)

(* Index::index_or_insert for usize, str, String, Value and references *)
index_or_insert(index, v) ==
    IF index.kind = "usize" THEN usize_index_or_insert(index.i, v)
    ELSE index_or_insert_mapping(index, v)

(* A &Value: into the tree, or the static NULL of ops::Index::index. *)
TreeRef(p) == [loc |-> "tree", path |-> p]
NullRef == [loc |-> "NULL", path |-> <<>>]
Deref(ref) == IF ref.loc = "tree" THEN ValueAt(root, ref.path) ELSE Null

(* as ops_index below, with unwrap_or(self): a failed read yields the      *)
(* value that was indexed                                                  *)
ops_index_or_self(index, ref) ==
    LET r == index_into(index, Deref(ref))
    IN  IF r = None THEN ref ELSE [loc |-> ref.loc, path |-> ref.path \o r.x]

(* impl ops::Index<I> for Value: index.index_into(self).unwrap_or(&NULL) *)
ops_index(index, ref) ==
    LET r == index_into(index, Deref(ref))
    IN  IF r = None THEN NullRef ELSE [loc |-> ref.loc, path |-> ref.path \o r.x]

---------------------------------------------------------------------------
(* Number (crate::number): an integer payload n stands for PosInt(n) when  *)
(* n >= 0 and for NegInt(n) when n < 0; Float(f) is a Number held as a     *)
(* float.  Integers are IntBits wide in place of 64.                       *)

IntBits == 3
I64_MAX == 2^(IntBits - 1) - 1
U64_MAX == 2^IntBits - 1

Float(f) == [t |-> "Number", f |-> f]
IsFloat(number) == "f" \in DOMAIN number

Number_as_i64(n) ==
    IF IsFloat(n) THEN None
    ELSE IF n.n <= I64_MAX THEN Some(n.n) ELSE None

Number_as_u64(n) ==
    IF IsFloat(n) THEN None
    ELSE IF n.n >= 0 THEN Some(n.n) ELSE None

(* an integer converts: n as f64 *)
Number_as_f64(n) ==
    IF IsFloat(n) THEN Some(n.f) ELSE Some([as_f64 |-> n.n])

Number_is_f64(n) == IsFloat(n)

---------------------------------------------------------------------------
(* Value: the is_X predicates and the as_X extractors                      *)

is_null(v) == untag_ref(v) = Null

as_null(v) == IF untag_ref(v) = Null THEN Some(<<>>) ELSE None

as_bool(v) ==
    LET u == untag_ref(v)
    IN  IF u.t = "Bool" THEN Some(u.b) ELSE None

is_bool(v) == as_bool(v) # None

is_number(v) == untag_ref(v).t = "Number"

as_i64(v) ==
    LET u == untag_ref(v)
    IN  IF u.t = "Number" THEN Number_as_i64(u) ELSE None

is_i64(v) == as_i64(v) # None

as_u64(v) ==
    LET u == untag_ref(v)
    IN  IF u.t = "Number" THEN Number_as_u64(u) ELSE None

is_u64(v) == as_u64(v) # None

is_f64(v) ==
    LET u == untag_ref(v)
    IN  IF u.t = "Number" THEN Number_is_f64(u) ELSE FALSE

as_f64(v) ==
    LET u == untag_ref(v)
    IN  IF u.t = "Number" THEN Number_as_f64(u) ELSE None

as_str(v) ==
    LET u == untag_ref(v)
    IN  IF u.t = "String" THEN Some(u.s) ELSE None

is_string(v) == as_str(v) # None

as_sequence(v) ==
    LET u == untag_ref(v)
    IN  IF u.t = "Sequence" THEN Some(u.vec) ELSE None

is_sequence(v) == as_sequence(v) # None

(* as as_sequence_mut below, matching on self where the code matches on    *)
(* self.untag_mut()                                                        *)
as_sequence_mut_no_untag(v) ==
    IF v.t = "Sequence" THEN Some(v.vec) ELSE None

as_sequence_mut(v) ==
    LET u == untag_mut(v)
    IN  IF u.t = "Sequence" THEN Some(u.vec) ELSE None

as_mapping(v) ==
    LET u == untag_ref(v)
    IN  IF u.t = "Mapping" THEN Some(u.map) ELSE None

is_mapping(v) == as_mapping(v) # None

as_mapping_mut(v) ==
    LET u == untag_mut(v)
    IN  IF u.t = "Mapping" THEN Some(u.map) ELSE None

---------------------------------------------------------------------------
(* The trees apply_merge is run on.                                        *)

MaxLen == 2        \* longest Sequence under a "<<" key
MaxEntries == 2    \* most entries of a merge source
MaxCalls == 1      \* apply_merge calls per run

RECURSIVE SeqsOfLen(_, _)
SeqsOfLen(S, n) ==
    IF n = 0 THEN {<<>>}
    ELSE {Append(s, x) : s \in SeqsOfLen(S, n - 1), x \in S}

SeqsOver(S, n) == UNION {SeqsOfLen(S, k) : k \in 0..n}

MapsOver(K, V, n) ==
    {m \in SeqsOver({Entry(k, v) : k \in K, v \in V}, n) : UniqueKeys(m)}

InsertAt(s, i, x) == SubSeq(s, 1, i) \o <<x>> \o SubSeq(s, i + 1, Len(s))

Scalars == {Null, Bool(TRUE), Number(1), Number(2), String("s")}
TextKeys == {String("a"), String("b")}

FlatMaps == {Mapping(m) : m \in MapsOver(TextKeys, {Number(1), Number(2)}, MaxEntries)}

(* merge sources that carry a merge key of their own *)
NestedSources ==
    {Mapping(<<Entry(MergeKey, x)>>) :
        x \in {Number(1), Mapping(<<Entry(String("a"), Number(1))>>)}}

Elems == Scalars \cup {Sequence(<<>>), Tagged("T", Null)} \cup FlatMaps \cup NestedSources

MergeVals == Elems \cup {Sequence(s) : s \in SeqsOver(Elems, MaxLen)}

Natives == MapsOver(TextKeys, {Number(1)}, 1)

(* a native part and the place of the "<<" entry among its entries *)
NativePlaces == {np \in Natives \X (0..1) : np[2] <= Len(np[1])}

WithMerge(np, mv) == Mapping(InsertAt(np[1], np[2], Entry(MergeKey, mv)))

MergeRoots == {WithMerge(np, mv) : np \in NativePlaces, mv \in MergeVals}

(* a mapping with a merge key below the root: as a mapping value, a        *)
(* sequence element, a Tagged inner value                                  *)
InnerRoots == {WithMerge(np, mv) : np \in NativePlaces, mv \in Elems}

Wrapped ==
    {Sequence(<<r>>) : r \in InnerRoots}
    \cup {Sequence(<<Number(1), r>>) : r \in InnerRoots}
    \cup {Tagged("T", r) : r \in InnerRoots}
    \cup {Mapping(<<Entry(String("a"), r)>>) : r \in InnerRoots}
    \cup {Mapping(<<Entry(String("b"), r), Entry(String("a"), Number(2))>>) :
            r \in InnerRoots}

(* trees in which no Mapping has the merge key *)
PlainLeaves == Scalars \cup FlatMaps \cup {Sequence(<<>>), Tagged("T", Number(1))}
PlainTrees ==
    PlainLeaves
    \cup {Sequence(s) : s \in SeqsOver(PlainLeaves, MaxLen)}
    \cup {Tagged("T", x) : x \in PlainLeaves}
    \cup {Mapping(<<Entry(k, x)>>) :
            k \in TextKeys \cup {Tagged("T", MergeKey), Number(0)}, x \in PlainLeaves}

(* sibling subtrees with merge keys of their own: resolved, refused, and    *)
(* resolved in part before an element is refused                           *)
PairParts ==
    {Mapping(<<Entry(String("b"), Number(1))>>),
     Mapping(<<Entry(String("a"), Number(1)),
               Entry(MergeKey, Mapping(<<Entry(String("a"), Number(2)),
                                         Entry(String("b"), Number(2))>>))>>),
     Mapping(<<Entry(MergeKey, Sequence(<<Mapping(<<Entry(String("a"), Number(1))>>),
                                          Mapping(<<Entry(String("a"), Number(2)),
                                                    Entry(String("b"), Number(2))>>)>>))>>),
     Mapping(<<Entry(MergeKey, Sequence(<<Mapping(<<Entry(String("a"), Number(1))>>),
                                          Number(2)>>)),
               Entry(String("b"), Number(1))>>),
     Mapping(<<Entry(MergeKey, Tagged("T", Null))>>),
     Mapping(<<Entry(MergeKey,
                     Mapping(<<Entry(String("a"),
                                     Mapping(<<Entry(MergeKey,
                                         Mapping(<<Entry(String("b"), Number(2))>>))>>))>>))>>)}

Pairs ==
    {Sequence(<<x, y>>) : x \in PairParts, y \in PairParts}
    \cup {Mapping(<<Entry(String("a"), x), Entry(String("b"), Tagged("T", y))>>) :
            x \in PairParts, y \in PairParts}

(* chains of singleton Sequences, nested up to MaxNest levels deep *)
MaxNest == 6

RECURSIVE Nested(_)
Nested(k) == IF k = 0 THEN Null ELSE Sequence(<<Nested(k - 1)>>)

DeepChains == {Nested(k) : k \in 3..MaxNest}

(* "<<" lists over a few elements, with every native part *)
ListRoots ==
    {WithMerge(np, Sequence(l)) :
        np \in NativePlaces,
        l \in SeqsOfLen({Mapping(<<Entry(String("a"), Number(1))>>),
                         Mapping(<<Entry(String("a"), Number(2)),
                                   Entry(String("b"), Number(2))>>),
                         Mapping(<<Entry(MergeKey, Number(1))>>),
                         Sequence(<<>>)}, MaxLen)}

(* the trees the traversal itself is studied on *)
TraversalTrees == DeepChains \cup Wrapped \cup Pairs \cup ListRoots

---------------------------------------------------------------------------
(* pub fn apply_merge(&mut self) -> Result<(), Error> *)

(* let mut stack = Vec::new(); stack.push(self); *)
apply_merge_call ==
    /\ pc = "idle"
    /\ calls < MaxCalls
    /\ pc' = "merge"
    /\ stack' = <<(<<>>)>>
    /\ orig' = root
    /\ result' = "none"
    /\ calls' = calls + 1
    /\ UNCHANGED <<root, indexVars>>

(* as visit below, for a node that is not the last pushed: it is taken off *)
(* the stack and dropped, neither resolved nor descended into              *)
visit_last_only(tree, pending, i) ==
    LET p == pending[i]
        rest == SubSeq(pending, 1, i - 1) \o SubSeq(pending, i + 1, Len(pending))
        node == ValueAt(tree, p)
    IN  IF i # Len(pending) THEN [root |-> tree, stack |-> rest, err |-> "Ok"]
        ELSE IF node.t = "Mapping"
        THEN LET r == resolve_mapping(node.map)
             IN  [root |-> ReplaceAt(tree, p, Mapping(r.map)),
                  stack |-> IF r.err = "Ok"
                            THEN rest \o ChildPaths(p, Mapping(r.map))
                            ELSE <<>>,
                  err |-> r.err]
        ELSE [root |-> tree, stack |-> rest \o ChildPaths(p, node), err |-> "Ok"]

(* The body of the loop on the pending node pending[i]: match node { ... }. *)
(* The tree and the stack as it leaves them, and the error it returns      *)
(* with, if any (the stack is dropped with the call).  stack.pop() takes   *)
(* i = Len(pending).                                                       *)
visit(tree, pending, i) ==
    LET p == pending[i]
        rest == SubSeq(pending, 1, i - 1) \o SubSeq(pending, i + 1, Len(pending))
        node == ValueAt(tree, p)
    IN  IF node.t = "Mapping"
        THEN LET r == resolve_mapping(node.map)
             IN  [root |-> ReplaceAt(tree, p, Mapping(r.map)),
                  stack |-> IF r.err = "Ok"
                            THEN rest \o ChildPaths(p, Mapping(r.map))
                            ELSE <<>>,
                  err |-> r.err]
        ELSE [root |-> tree, stack |-> rest \o ChildPaths(p, node), err |-> "Ok"]

(* one iteration of the loop, on the pending node at place i of the stack *)
apply_merge_visit(i) ==
    /\ pc = "merge"
    /\ i \in 1..Len(stack)
    /\ LET r == visit(root, stack, i)
       IN  /\ root' = r.root
           /\ stack' = r.stack
           /\ IF r.err = "Ok"
              THEN UNCHANGED <<pc, result>>
              ELSE pc' = "idle" /\ result' = r.err
    /\ UNCHANGED <<orig, calls, indexVars>>

(* one iteration of: while let Some(node) = stack.pop() { match node ... } *)
apply_merge_step ==
    /\ stack # <<>>
    /\ apply_merge_visit(Len(stack))

(* the loop ends: Ok(()) *)
apply_merge_return ==
    /\ pc = "merge"
    /\ stack = <<>>
    /\ pc' = "idle"
    /\ result' = "Ok"
    /\ UNCHANGED <<root, orig, stack, calls, indexVars>>

---------------------------------------------------------------------------
Init ==
    /\ \/ root \in MergeRoots
       \/ root \in Wrapped
       \/ root \in PlainTrees
       \/ root \in DeepChains
       \/ root \in Pairs
    /\ orig = root
    /\ stack = <<>>
    /\ pc = "idle"
    /\ result = "none"
    /\ calls = 0
    /\ rd = TreeRef(<<>>)
    /\ wr = <<>>
    /\ chain = <<>>
    /\ depth = 0
    /\ base = root
    /\ wrote = FALSE
    /\ last = [op |-> "none"]

Next ==
    \/ apply_merge_call
    \/ apply_merge_step
    \/ apply_merge_return

Spec == Init /\ [][Next]_vars

(* The traversal on its own. *)
TraversalInit ==
    /\ root \in TraversalTrees
    /\ orig = root
    /\ stack = <<>>
    /\ pc = "idle"
    /\ result = "none"
    /\ calls = 0
    /\ rd = TreeRef(<<>>)
    /\ wr = <<>>
    /\ chain = <<>>
    /\ depth = 0
    /\ base = root
    /\ wrote = FALSE
    /\ last = [op |-> "none"]

(* apply_merge is straight-line code on one thread: once called, it runs   *)
(* until it returns                                                        *)
FairInit ==
    /\ root \in DeepChains \cup Pairs
    /\ orig = root
    /\ stack = <<>>
    /\ pc = "idle"
    /\ result = "none"
    /\ calls = 0
    /\ rd = TreeRef(<<>>)
    /\ wr = <<>>
    /\ chain = <<>>
    /\ depth = 0
    /\ base = root
    /\ wrote = FALSE
    /\ last = [op |-> "none"]

FairSpec ==
    /\ FairInit
    /\ [][Next]_vars
    /\ WF_vars(apply_merge_step)
    /\ WF_vars(apply_merge_return)

(* apply_merge with the pending nodes taken from the work stack in any     *)
(* order, stack.pop()'s order among them                                   *)
AnyOrderNext ==
    \/ apply_merge_call
    \/ \E i \in 1..Len(stack) : apply_merge_visit(i)
    \/ apply_merge_return

AnyOrderSpec == TraversalInit /\ [][AnyOrderNext]_vars

---------------------------------------------------------------------------
(* Indexing: a read expression v[i][j]..., possibly ending in .get(i) or   *)
(* .get_mut(i), and the statement v[i][j]... = x.  A run holds any number  *)
(* of read expressions and then at most one bracket-write statement.       *)

MaxChain == 2      \* longest chain of brackets in one expression
MaxIndex == 2      \* largest integer index tried

Indices ==
    {USize(i) : i \in 0..MaxIndex}
    \cup {Str("a"), Str("b")}
    \cup {Val(k) : k \in {String("a"), Number(0), Tagged("T", String("a"))}}

IndexKeys == {String("a"), Number(0), Tagged("T", String("a"))}
IndexLeaves ==
    {Null, Number(1), Sequence(<<Number(2)>>),
     Mapping(<<Entry(String("a"), Number(2))>>)}

IndexPlain ==
    Scalars
    \cup {Sequence(s) : s \in SeqsOver({Null, Number(1)}, MaxLen)}
    \cup {Mapping(m) : m \in MapsOver(IndexKeys, IndexLeaves, MaxEntries)}

IndexTrees ==
    IndexPlain
    \cup {Tagged("T", x) : x \in IndexLeaves \cup {Bool(TRUE), Tagged("U", Null)}}
    \cup {Tagged("T", Tagged("U", x)) : x \in IndexLeaves}

Assigned == {Number(7), String("x")}

(* value.get(index) and value.get_mut(index) on the value a chain of reads *)
(* has reached                                                             *)
Get(index) ==
    /\ pc \in {"idle", "read"}
    /\ ~wrote
    /\ pc' = "got"
    /\ last' = [op |-> "get", index |-> index, target |-> Deref(rd),
                ret |-> get(index, Deref(rd)),
                ret_mut |-> get_mut(index, Deref(rd))]
    /\ base' = IF pc = "idle" THEN root ELSE base
    /\ UNCHANGED <<root, result, mergeVars, rd, wr, chain, depth, wrote>>

(* one more bracket of a read expression: value[index] *)
BracketRead(index) ==
    /\ pc \in {"idle", "read"}
    /\ ~wrote
    /\ depth < MaxChain
    /\ pc' = "read"
    /\ rd' = ops_index(index, rd)
    /\ depth' = depth + 1
    /\ last' = [op |-> "index", index |-> index, target |-> Deref(rd)]
    /\ base' = IF pc = "idle" THEN root ELSE base
    /\ UNCHANGED <<root, result, mergeVars, wr, chain, wrote>>

(* a read expression ends *)
EndRead ==
    /\ pc \in {"read", "got"}
    /\ pc' = "idle"
    /\ rd' = TreeRef(<<>>)
    /\ depth' = 0
    /\ last' = [op |-> "none"]
    /\ UNCHANGED <<root, result, mergeVars, wr, chain, base, wrote>>

(* one more bracket of a write expression: IndexMut::index_mut *)
BracketWrite(index) ==
    /\ \/ pc = "idle" /\ ~wrote
       \/ pc = "write"
    /\ depth < MaxChain
    /\ LET r == index_or_insert(index, ValueAt(root, wr))
       IN  /\ root' = ReplaceAt(root, wr, r.v)
           /\ wr' = wr \o r.ret
           /\ pc' = IF r.panic THEN "panic" ELSE "write"
           /\ last' = [op |-> "index_mut", index |-> index, at |-> wr,
                       target |-> ValueAt(root, wr), panic |-> r.panic]
    /\ chain' = Append(chain, index)
    /\ depth' = depth + 1
    /\ base' = IF pc = "idle" THEN root ELSE base
    /\ wrote' = TRUE
    /\ result' = "none"
    /\ UNCHANGED <<mergeVars, rd>>

(* the assignment that ends v[i][j]... = x *)
Assign(x) ==
    /\ pc = "write"
    /\ root' = ReplaceAt(root, wr, x)
    /\ last' = [op |-> "assign", chain |-> chain, x |-> x]
    /\ pc' = "idle"
    /\ wr' = <<>>
    /\ chain' = <<>>
    /\ depth' = 0
    /\ UNCHANGED <<result, mergeVars, rd, base, wrote>>

IndexInit ==
    /\ root \in IndexTrees
    /\ orig = root
    /\ stack = <<>>
    /\ pc = "idle"
    /\ result = "none"
    /\ calls = 0
    /\ rd = TreeRef(<<>>)
    /\ wr = <<>>
    /\ chain = <<>>
    /\ depth = 0
    /\ base = root
    /\ wrote = FALSE
    /\ last = [op |-> "none"]

IndexNext ==
    \/ \E index \in Indices : Get(index)
    \/ \E index \in Indices : BracketRead(index)
    \/ EndRead
    \/ \E index \in Indices : BracketWrite(index)
    \/ \E x \in Assigned : Assign(x)

IndexSpec == IndexInit /\ [][IndexNext]_vars

---------------------------------------------------------------------------
(* The accessors, called on one value.                                     *)

AccessBase ==
    {Null, Bool(TRUE), Bool(FALSE), String("s"), String(""),
     Number(0), Number(1), Number(0 - 1), Number(I64_MAX), Number(I64_MAX + 1),
     Number(U64_MAX), Float("1.5"), Float("nan"),
     Sequence(<<>>), Sequence(<<Null>>), Sequence(<<Number(1), String("s")>>),
     Mapping(<<>>), Mapping(<<Entry(String("a"), Number(1))>>),
     Mapping(<<Entry(Number(0), Null), Entry(Tagged("T", String("a")), Float("1.5"))>>)}

AccessValues ==
    AccessBase
    \cup {Tagged("T", x) : x \in AccessBase}
    \cup {Tagged("T", Tagged("U", x)) : x \in AccessBase}

(* every is_X and as_X of the value *)
Access ==
    /\ pc = "idle"
    /\ last.op = "none"
    /\ pc' = "got"
    /\ last' = [op |-> "access",
                is_null |-> is_null(root), as_null |-> as_null(root),
                is_bool |-> is_bool(root), as_bool |-> as_bool(root),
                is_number |-> is_number(root),
                is_i64 |-> is_i64(root), as_i64 |-> as_i64(root),
                is_u64 |-> is_u64(root), as_u64 |-> as_u64(root),
                is_f64 |-> is_f64(root), as_f64 |-> as_f64(root),
                is_string |-> is_string(root), as_str |-> as_str(root),
                is_sequence |-> is_sequence(root), as_sequence |-> as_sequence(root),
                as_sequence_mut |-> as_sequence_mut(root),
                is_mapping |-> is_mapping(root), as_mapping |-> as_mapping(root),
                as_mapping_mut |-> as_mapping_mut(root)]
    /\ UNCHANGED <<root, result, mergeVars, rd, wr, chain, depth, base, wrote>>

AccessInit ==
    /\ root \in AccessValues
    /\ orig = root
    /\ stack = <<>>
    /\ pc = "idle"
    /\ result = "none"
    /\ calls = 0
    /\ rd = TreeRef(<<>>)
    /\ wr = <<>>
    /\ chain = <<>>
    /\ depth = 0
    /\ base = root
    /\ wrote = FALSE
    /\ last = [op |-> "none"]

AccessNext == Access

AccessSpec == AccessInit /\ [][AccessNext]_vars

---------------------------------------------------------------------------
(* Bracket-writes and apply_merge calls on the same tree, in any order.    *)

MixedTrees ==
    PairParts
    \cup {Null, Mapping(<<>>), Number(1),
          Mapping(<<Entry(Number(0), Null),
                    Entry(Tagged("T", String("a")), Number(1)),
                    Entry(String("a"), Number(2))>>),
          Mapping(<<Entry(String("a"), Mapping(<<Entry(Tagged("T", MergeKey), Number(1))>>)),
                    Entry(MergeKey, Mapping(<<Entry(Tagged("T", String("a")), Number(2)),
                                              Entry(String("a"), Number(2))>>))>>),
          Tagged("T", Mapping(<<Entry(String("a"), Number(1))>>)),
          Sequence(<<Mapping(<<Entry(MergeKey, Sequence(<<
                                 Mapping(<<Entry(Number(0), Number(1))>>),
                                 Mapping(<<Entry(Number(0), Number(2)),
                                           Entry(MergeKey, Number(1))>>)>>))>>),
                     Null>>)}

MixedIndices ==
    {USize(0), Str("a"), Str("<<"), Val(Tagged("T", String("a"))), Val(Number(0))}

MixedAssigned ==
    {Number(7),
     Mapping(<<Entry(String("a"), Number(2)), Entry(Tagged("T", String("a")), Number(2))>>),
     Mapping(<<Entry(MergeKey, Mapping(<<Entry(String("a"), Number(2)),
                                         Entry(Number(0), Number(2))>>))>>)}

MixedInit ==
    /\ root \in MixedTrees
    /\ orig = root
    /\ stack = <<>>
    /\ pc = "idle"
    /\ result = "none"
    /\ calls = 0
    /\ rd = TreeRef(<<>>)
    /\ wr = <<>>
    /\ chain = <<>>
    /\ depth = 0
    /\ base = root
    /\ wrote = FALSE
    /\ last = [op |-> "none"]

MixedNext ==
    \/ apply_merge_call
    \/ apply_merge_step
    \/ apply_merge_return
    \/ \E index \in MixedIndices : BracketWrite(index)
    \/ \E x \in MixedAssigned : Assign(x)

MixedSpec == MixedInit /\ [][MixedNext]_vars

---------------------------------------------------------------------------
(* What the claims speak of.                                               *)

Top == stack[Len(stack)]
TopNode == ValueAt(root, Top)

(* apply_merge is about to pop a Mapping whose "<<" entry has variant t *)
PopsMergeOf(t) ==
    /\ pc = "merge"
    /\ stack # <<>>
    /\ TopNode.t = "Mapping"
    /\ MapHas(TopNode.map, MergeKey)
    /\ MapGet(TopNode.map, MergeKey).x.t = t

(* no Mapping reachable through mapping values, sequence elements and      *)
(* Tagged inner values has the key "<<"                                    *)
MergeFree(v) ==
    \A p \in Paths(v) :
        ValueAt(v, p).t = "Mapping" => ~MapHas(ValueAt(v, p).map, MergeKey)

Returned(r) == pc = "idle" /\ calls > 0 /\ result = r

(* C1: when apply_merge resolves a Mapping whose "<<" entry is a Mapping   *)
(* M, every key other than "<<" the mapping had keeps its own value, and   *)
(* every key of M the mapping did not have is now bound to M's value.      *)
C1_NativeEntriesWin ==
    [][PopsMergeOf("Mapping") =>
        LET old == TopNode.map
            M == MapGet(old, MergeKey).x.map
            new == ValueAt(root', Top)
        IN  /\ new.t = "Mapping"
            /\ \A i \in 1..Len(old) :
                   old[i].k # MergeKey => MapGet(new.map, old[i].k) = Some(old[i].v)
            /\ \A j \in 1..Len(M) :
                   ~MapHas(old, M[j].k) => MapGet(new.map, M[j].k) = Some(M[j].v)
      ]_vars

(* {a:1, "<<": {a:2, b:2}} has merged to {a:1, b:2} *)
C1_Witness ==
    /\ Returned("Ok")
    /\ orig = Mapping(<<Entry(String("a"), Number(1)),
                        Entry(MergeKey, Mapping(<<Entry(String("a"), Number(2)),
                                                  Entry(String("b"), Number(2))>>))>>)
    /\ root = Mapping(<<Entry(String("a"), Number(1)), Entry(String("b"), Number(2))>>)

(* C2: when apply_merge resolves a Mapping whose "<<" entry is a Sequence  *)
(* of Mappings, a key native to the mapping keeps its value, and any other *)
(* key is bound to the value of the earliest element that has it.          *)
C2_EarlierElementsWin ==
    [][(PopsMergeOf("Sequence")
          /\ \A i \in 1..Len(MapGet(TopNode.map, MergeKey).x.vec) :
                 MapGet(TopNode.map, MergeKey).x.vec[i].t = "Mapping") =>
        LET old == TopNode.map
            els == MapGet(old, MergeKey).x.vec
            new == ValueAt(root', Top)
        IN  /\ new.t = "Mapping"
            /\ \A i \in 1..Len(old) :
                   old[i].k # MergeKey => MapGet(new.map, old[i].k) = Some(old[i].v)
            /\ \A e \in 1..Len(els) : \A j \in 1..Len(els[e].map) :
                   LET k == els[e].map[j].k
                   IN  (/\ k \notin MapKeys(old) \ {MergeKey}
                        /\ \A d \in 1..(e - 1) : ~MapHas(els[d].map, k))
                       => MapGet(new.map, k) = Some(els[e].map[j].v)
      ]_vars

(* {"<<": [{a:1}, {a:2, b:2}]} has merged to {a:1, b:2} *)
C2_Witness ==
    /\ Returned("Ok")
    /\ orig = Mapping(<<Entry(MergeKey, Sequence(<<
                  Mapping(<<Entry(String("a"), Number(1))>>),
                  Mapping(<<Entry(String("a"), Number(2)),
                            Entry(String("b"), Number(2))>>)>>))>>)
    /\ root = Mapping(<<Entry(String("a"), Number(1)), Entry(String("b"), Number(2))>>)

IsScalar(v) == v.t \in {"Null", "Bool", "Number", "String"}

ElementError(value) ==
    CASE value.t = "Sequence" -> "SequenceInMergeElement"
      [] value.t = "Tagged"   -> "TaggedInMerge"
      [] OTHER                -> "ScalarInMergeElement"

(* the error the claim assigns to a node, "none" when it assigns none *)
ClaimedError(node) ==
    IF node.t # "Mapping" \/ ~MapHas(node.map, MergeKey) THEN "none"
    ELSE LET m == MapGet(node.map, MergeKey).x
         IN  CASE m.t = "Tagged"   -> "TaggedInMerge"
               [] IsScalar(m)      -> "ScalarInMerge"
               [] m.t = "Mapping"  -> "none"
               [] m.t = "Sequence" ->
                    LET bad == {i \in 1..Len(m.vec) : m.vec[i].t # "Mapping"}
                    IN  IF bad = {} THEN "none"
                        ELSE ElementError(m.vec[CHOOSE i \in bad : \A j \in bad : i <= j])

(* C3: apply_merge returns an error exactly when the node it pops is a     *)
(* Mapping whose "<<" value is Tagged (TaggedInMerge), a scalar            *)
(* (ScalarInMerge), or a Sequence with an element that is a Sequence       *)
(* (SequenceInMergeElement), Tagged (TaggedInMerge) or a scalar            *)
(* (ScalarInMergeElement); the first such element decides. Otherwise it    *)
(* goes on, and returns Ok when the stack is empty.                        *)
C3_ErrorClassification ==
    [][pc = "merge" =>
        IF stack = <<>> THEN pc' = "idle" /\ result' = "Ok"
        ELSE IF ClaimedError(TopNode) = "none"
             THEN pc' = "merge" /\ result' = result
             ELSE pc' = "idle" /\ result' = ClaimedError(TopNode)
      ]_vars

(* a Sequence element of a "<<" list was refused *)
C3_Witness ==
    /\ Returned("SequenceInMergeElement")
    /\ \E p \in Paths(orig) :
          /\ ValueAt(orig, p).t = "Mapping"
          /\ ClaimedError(ValueAt(orig, p)) = "SequenceInMergeElement"

(* C4: after apply_merge returns Ok, no Mapping reachable from the root    *)
(* through mapping values, sequence elements and Tagged inner values has   *)
(* the key "<<".                                                           *)
C4_NoMergeKeyLeft == Returned("Ok") => MergeFree(root)

(* C5: apply_merge on a tree in which no Mapping has the key "<<" leaves   *)
(* the tree as it was, at every step, and returns Ok.                      *)
C5_NoMergeKeyNoChange ==
    (calls > 0 /\ MergeFree(orig)) =>
        /\ root = orig
        /\ result \in {"none", "Ok"}
        /\ (pc = "idle" => result = "Ok")

(* apply_merge has returned from a tree with containers and no merge key *)
C5_Witness ==
    /\ Returned("Ok")
    /\ MergeFree(orig)
    /\ orig.t = "Sequence"
    /\ Len(orig.vec) = 2
    /\ orig.vec[1].t = "Mapping"

(* the value a Value is after stripping every enclosing Tagged wrapper *)
RECURSIVE Stripped(_)
Stripped(v) == IF v.t = "Tagged" THEN Stripped(v.value) ELSE v

EntryWithKey(map, k) ==
    IF \E j \in 1..Len(map) : map[j].k = k
    THEN Some(map[CHOOSE j \in 1..Len(map) : map[j].k = k].v)
    ELSE None

(* the key a text index or a Value index names *)
KeyNamed(index) == IF index.kind = "str" THEN [t |-> "String", s |-> index.s] ELSE index.v

(* the lookup rules as the claims state them *)
Lookup(index, target) ==
    LET u == Stripped(target)
    IN  IF index.kind = "usize"
        THEN CASE u.t = "Sequence" ->
                    IF index.i < Len(u.vec) THEN Some(u.vec[index.i + 1]) ELSE None
               [] u.t = "Mapping"  -> EntryWithKey(u.map, [t |-> "Number", n |-> index.i])
               [] OTHER            -> None
        ELSE IF u.t = "Mapping" THEN EntryWithKey(u.map, KeyNamed(index)) ELSE None

(* C6: a bracket-read never faults: value[index] is the value get(index)   *)
(* finds, and Null when get finds none, at every bracket of a chain, and   *)
(* the tree is as it was when the expression began.                        *)
C6_BracketReadTotal ==
    last.op = "index" =>
        /\ pc = "read"
        /\ root = base
        /\ LET found == get(last.index, last.target)
           IN  IF found = None
               THEN rd.loc = "NULL" /\ Deref(rd) = Null
               ELSE Deref(rd) = found.x

(* v[i][j] where v[i] found nothing: the second bracket reads the shared   *)
(* Null and yields it again                                                *)
C6_Witness ==
    /\ last.op = "index"
    /\ depth = 2
    /\ root.t = "Mapping"
    /\ root.map # <<>>
    /\ last.target = Null
    /\ rd.loc = "NULL"

(* C7: get and get_mut follow the lookup rules: on the target stripped of  *)
(* its Tagged wrappers, an integer index i finds element i of a Sequence   *)
(* iff i < length, or the entry of a Mapping whose key is the Number i; a  *)
(* text or Value index finds the entry of a Mapping with that key; every   *)
(* other combination finds nothing.                                        *)
C7_LookupRules ==
    last.op = "get" =>
        /\ last.ret = Lookup(last.index, last.target)
        /\ last.ret_mut = Lookup(last.index, last.target)

(* an integer index found the entry of a Mapping keyed by that Number *)
C7_Witness ==
    /\ last.op = "get"
    /\ last.index.kind = "usize"
    /\ last.target.t = "Mapping"
    /\ last.ret # None

(* where index_mut's target lies now *)
Target == ValueAt(root, last.at)

(* the returned &mut Value is the entry of the target's mapping for key k *)
ReturnsEntry(k) ==
    /\ Target.t = "Mapping"
    /\ \E j \in 1..Len(Target.map) : Target.map[j].k = k /\ wr = Append(last.at, j)

(* C8: get_or_insert with a text or Value index k: a Null target becomes   *)
(* a Mapping holding only (k, Null); a Mapping target keeps every entry it *)
(* had with its value, gains (k, Null) when it had no entry for k and      *)
(* nothing else, and the entry for k is what is returned; a Bool, Number,  *)
(* String or Sequence target faults, and is left as it was.                *)
C8_GetOrInsertByKey ==
    (last.op = "index_mut" /\ last.index.kind # "usize") =>
        LET k == KeyNamed(last.index)
            t == last.target
        IN  CASE t.t = "Null" ->
                   /\ ~last.panic /\ pc = "write"
                   /\ Target = [t |-> "Mapping", map |-> <<[k |-> k, v |-> Null]>>]
                   /\ ReturnsEntry(k)
              [] t.t = "Mapping" ->
                   /\ ~last.panic /\ pc = "write"
                   /\ ReturnsEntry(k)
                   /\ \A i \in 1..Len(t.map) :
                          EntryWithKey(Target.map, t.map[i].k) = Some(t.map[i].v)
                   /\ MapKeys(Target.map) = MapKeys(t.map) \cup {k}
                   /\ Len(Target.map) = Cardinality(MapKeys(Target.map))
                   /\ (k \notin MapKeys(t.map) => EntryWithKey(Target.map, k) = Some(Null))
              [] t.t \in {"Bool", "Number", "String", "Sequence"} ->
                   last.panic /\ pc = "panic" /\ Target = t
              [] OTHER -> TRUE

(* a Null below the root was written through by text key and became a      *)
(* Mapping                                                                 *)
C8_Witness ==
    /\ last.op = "index_mut"
    /\ last.index = Str("b")
    /\ last.target = Null
    /\ last.at # <<>>
    /\ Target.t = "Mapping"

(* C9: get_or_insert on a Tagged target has the outcome get_or_insert has  *)
(* on its inner value: the same fault, or the same returned entry and the  *)
(* same change of the inner value.                                         *)
C9_TaggedAsInner ==
    (last.op = "index_mut" /\ last.target.t = "Tagged") =>
        LET r == index_or_insert(last.index, last.target.value)
        IN  /\ last.panic = r.panic
            /\ ~r.panic => /\ Target = Tagged(last.target.tag, r.v)
                           /\ wr = last.at \o <<1>> \o r.ret

AllText(keys) == \A i \in 1..Len(keys) : keys[i].kind = "str"

(* every level the keys pass through is Null, or a Mapping, or missing *)
RECURSIVE Vivifiable(_, _)
Vivifiable(v, keys) ==
    \/ keys = <<>>
    \/ v = Null
    \/ /\ v.t = "Mapping"
       /\ EntryWithKey(v.map, KeyNamed(Head(keys))) # None
            => Vivifiable(EntryWithKey(v.map, KeyNamed(Head(keys))).x, Tail(keys))

(* get(k1)...get(kn) *)
RECURSIVE GetChain(_, _)
GetChain(v, keys) ==
    IF keys = <<>> THEN Some(v)
    ELSE LET r == get(Head(keys), v)
         IN  IF r = None THEN None ELSE GetChain(r.x, Tail(keys))

(* every entry of old off the written path is in new with its value *)
RECURSIVE SiblingsKept(_, _, _)
SiblingsKept(old, new, keys) ==
    \/ keys = <<>>
    \/ old = Null
    \/ /\ old.t = "Mapping"
       /\ new.t = "Mapping"
       /\ \A i \in 1..Len(old.map) :
              IF old.map[i].k = KeyNamed(Head(keys))
              THEN /\ EntryWithKey(new.map, old.map[i].k) # None
                   /\ SiblingsKept(old.map[i].v,
                                   EntryWithKey(new.map, old.map[i].k).x, Tail(keys))
              ELSE EntryWithKey(new.map, old.map[i].k) = Some(old.map[i].v)

(* C10: a chain of text-key bracket-writes v[k1]...[kn] = x on a tree      *)
(* whose levels along k1...kn are Null, Mappings or missing does not       *)
(* fault; afterwards every level along the path is a Mapping,              *)
(* get(k1)...get(kn) is x, and every entry off the path is there with the  *)
(* value it had.                                                           *)
C10_AutoVivification ==
    /\ (pc \in {"write", "panic"} /\ AllText(chain) /\ Vivifiable(base, chain))
          => pc = "write"
    /\ (last.op = "assign" /\ AllText(last.chain) /\ Vivifiable(base, last.chain))
          => /\ GetChain(root, last.chain) = Some(last.x)
             /\ \A n \in 0..(Len(last.chain) - 1) :
                    GetChain(root, SubSeq(last.chain, 1, n)).x.t = "Mapping"
             /\ SiblingsKept(base, root, last.chain)

(* v["b"]["a"] = x on a Mapping with entries and no key "b": two levels    *)
(* were created beside the entries                                         *)
C10_Witness ==
    /\ last.op = "assign"
    /\ last.chain = <<Str("b"), Str("a")>>
    /\ base.t = "Mapping"
    /\ Len(base.map) = 2
    /\ Len(root.map) = 3

(* C11: get_or_insert with an integer index i on a Sequence of length n:   *)
(* when i < n it returns element i, and when i >= n it faults; either way  *)
(* the Sequence has the length and the elements it had.                    *)
C11_SequenceNeverGrows ==
    (last.op = "index_mut" /\ last.index.kind = "usize" /\ last.target.t = "Sequence") =>
        /\ Target = last.target
        /\ IF last.index.i < Len(last.target.vec)
           THEN ~last.panic /\ pc = "write" /\ wr = Append(last.at, last.index.i + 1)
           ELSE last.panic /\ pc = "panic"

(* index 2 was written into a 2-element Sequence: a fault, and the         *)
(* Sequence still has 2 elements                                           *)
C11_Witness ==
    /\ last.op = "index_mut"
    /\ last.index = USize(2)
    /\ last.target.t = "Sequence"
    /\ Len(last.target.vec) = 2
    /\ pc = "panic"
    /\ Len(Target.vec) = 2

(* C12: a bracket-write with an integer index panics unless the value is a *)
(* Sequence longer than the index: on a value that is not a Sequence, and  *)
(* on a Sequence that is too small, it panics.                             *)
C12_IntegerWriteNeedsSequence ==
    (last.op = "index_mut" /\ last.index.kind = "usize") =>
        (last.panic <=> ~(/\ last.target.t = "Sequence"
                          /\ last.index.i < Len(last.target.vec)))

(* what C13 says of the kinds other than f64: the predicate is true iff    *)
(* the extractor returns Some, and the extractor returns Some iff the      *)
(* value stripped of its Tagged wrappers is of the kind; the _mut          *)
(* extractors succeed as the shared ones do                                *)
KindsButF64 ==
    LET u == Stripped(root)
        int == u.t = "Number" /\ "n" \in DOMAIN u
    IN  /\ last.is_null <=> last.as_null # None
        /\ last.as_null # None <=> u.t = "Null"
        /\ last.is_bool <=> last.as_bool # None
        /\ last.as_bool # None <=> u.t = "Bool"
        /\ last.is_i64 <=> last.as_i64 # None
        /\ last.as_i64 # None <=> (int /\ u.n <= I64_MAX)
        /\ last.is_u64 <=> last.as_u64 # None
        /\ last.as_u64 # None <=> (int /\ u.n >= 0)
        /\ last.is_string <=> last.as_str # None
        /\ last.as_str # None <=> u.t = "String"
        /\ last.is_sequence <=> last.as_sequence # None
        /\ last.as_sequence # None <=> u.t = "Sequence"
        /\ last.as_sequence_mut # None <=> last.as_sequence # None
        /\ last.is_mapping <=> last.as_mapping # None
        /\ last.as_mapping # None <=> u.t = "Mapping"
        /\ last.as_mapping_mut # None <=> last.as_mapping # None

(* C13 as claimed: for every kind, f64 included, is_X(v) is true iff       *)
(* as_X(v) returns Some, and as_X(v) returns Some iff v stripped of its    *)
(* Tagged wrappers is of kind X.                                           *)
C13_PredicateIffExtractor ==
    last.op = "access" =>
        /\ KindsButF64
        /\ last.is_f64 <=> last.as_f64 # None

(* C13 amended: as claimed for null, bool, i64, u64, str, sequence and     *)
(* mapping; as_f64 returns Some iff the stripped value is a Number         *)
(* (integers convert), is_f64 is true iff it is a Number held as a float,  *)
(* so is_f64 implies that as_f64 returns Some, and not the converse.       *)
C13_PredicateExtractorButF64 ==
    last.op = "access" =>
        /\ KindsButF64
        /\ last.as_f64 # None <=> Stripped(root).t = "Number"
        /\ last.is_f64 <=> (Stripped(root).t = "Number" /\ "f" \in DOMAIN Stripped(root))
        /\ last.is_f64 => last.as_f64 # None

(* the accessors were called on a Sequence under two Tagged wrappers *)
C13_Witness ==
    /\ last.op = "access"
    /\ root.t = "Tagged"
    /\ root.value.t = "Tagged"
    /\ last.is_sequence
    /\ last.as_sequence_mut = Some(<<Number(1), String("s")>>)
    /\ ~last.is_mapping

(* number of nodes of a tree *)
Size(v) == Cardinality(Paths(v))

RECURSIVE SumSizes(_, _)
SumSizes(tree, paths) ==
    IF paths = <<>> THEN 0
    ELSE Size(ValueAt(tree, Head(paths))) + SumSizes(tree, Tail(paths))

(* the nodes apply_merge has still to visit: those below the pending ones *)
Work == SumSizes(root, stack)

(* C14: apply_merge, once called, returns; every iteration of its loop     *)
(* takes the pending work down, by exactly the node it visits when that    *)
(* node has no merge key, so each node is visited once; the work stack,    *)
(* not the call stack, holds the pending nodes, and on a chain of          *)
(* singleton Sequences it never holds more than one.                       *)
C14_BoundedStackTraversal ==
    /\ (pc = "merge") ~> (pc = "idle")
    /\ [][(pc = "merge" /\ stack # <<>>) =>
            /\ Work' < Work
            /\ ~(TopNode.t = "Mapping" /\ MapHas(TopNode.map, MergeKey))
                 => Work' = Work - 1]_vars
    /\ [](orig \in DeepChains => Len(stack) <= 1)

(* apply_merge has returned Ok from the deepest chain of singleton         *)
(* Sequences                                                               *)
C14_Witness ==
    /\ Returned("Ok")
    /\ orig = Nested(MaxNest)
    /\ root = orig

(* apply_merge as the code runs it, the last pushed node first: the tree   *)
(* it leaves and what it returns                                           *)
RECURSIVE apply_merge_from(_, _)
apply_merge_from(tree, pending) ==
    IF pending = <<>> THEN [root |-> tree, err |-> "Ok"]
    ELSE LET r == visit(tree, pending, Len(pending))
         IN  IF r.err = "Ok" THEN apply_merge_from(r.root, r.stack)
             ELSE [root |-> r.root, err |-> r.err]

InCodeOrder(tree) == apply_merge_from(tree, <<(<<>>)>>)

RECURSIVE MappingsBefore(_)
MappingsBefore(list) ==
    IF list = <<>> \/ Head(list).t # "Mapping" THEN <<>>
    ELSE <<Head(list)>> \o MappingsBefore(Tail(list))

(* C16: when the node apply_merge pops has an offending "<<" value or list *)
(* element, apply_merge returns the error in that step and visits no       *)
(* further node; nothing is rolled back: the rest of the tree, mappings    *)
(* resolved before included, stays as that step found it, and the          *)
(* offending mapping keeps its native entries, has lost the "<<" entry it  *)
(* had, and holds the entries merged from the elements before the          *)
(* offending one.                                                          *)
C16_FailFastNoRollback ==
    [][(pc = "merge" /\ stack # <<>> /\ ClaimedError(TopNode) # "none") =>
        LET old == TopNode.map
            m == MapGet(old, MergeKey).x
            new == ValueAt(root', Top)
            els == IF m.t = "Sequence" THEN MappingsBefore(m.vec) ELSE <<>>
            natives == MapKeys(old) \ {MergeKey}
        IN  /\ pc' = "idle"
            /\ result' = ClaimedError(TopNode)
            /\ stack' = <<>>
            /\ new.t = "Mapping"
            /\ root' = ReplaceAt(root, Top, new)
            /\ MapGet(new.map, MergeKey) # MapGet(old, MergeKey)
            /\ \A i \in 1..Len(old) :
                   old[i].k # MergeKey => MapGet(new.map, old[i].k) = Some(old[i].v)
            /\ \A e \in 1..Len(els) : \A j \in 1..Len(els[e].map) :
                   LET k == els[e].map[j].k
                   IN  (/\ k \notin natives
                        /\ \A d \in 1..(e - 1) : ~MapHas(els[d].map, k))
                       => MapGet(new.map, k) = Some(els[e].map[j].v)
            /\ MapKeys(new.map) =
                   natives \cup UNION {MapKeys(els[e].map) : e \in 1..Len(els)}
      ]_vars

(* of two sibling mappings the one popped first was resolved; the other    *)
(* was refused at the second element of its "<<" list, after the first     *)
(* element had been merged and its "<<" entry removed                      *)
C16_Witness ==
    /\ Returned("ScalarInMergeElement")
    /\ orig \in Pairs
    /\ orig.t = "Sequence"
    /\ MapHas(orig.vec[2].map, MergeKey)
    /\ root.vec[2] = Mapping(<<Entry(String("a"), Number(1)), Entry(String("b"), Number(2))>>)
    /\ root.vec[1] = Mapping(<<Entry(String("b"), Number(1)), Entry(String("a"), Number(1))>>)

(* C17: after any bracket-writes and apply_merge calls, every Mapping of   *)
(* the tree holds at most one entry per key; keys are told apart by        *)
(* structural equality, a Tagged key from its inner value too: a write by  *)
(* text or Value key adds an entry exactly when no entry has that very     *)
(* key.                                                                    *)
C17_KeysUnique ==
    /\ \A p \in Paths(root) :
           ValueAt(root, p).t = "Mapping" => UniqueKeys(ValueAt(root, p).map)
    /\ (/\ last.op = "index_mut"
        /\ last.index.kind # "usize"
        /\ last.target.t = "Mapping") =>
           /\ Target.t = "Mapping"
           /\ Len(Target.map) =
                  IF \E i \in 1..Len(last.target.map) :
                         last.target.map[i].k = KeyNamed(last.index)
                  THEN Len(last.target.map)
                  ELSE Len(last.target.map) + 1

(* a merge put the Tagged key !T "a" beside the key "a", and a write by    *)
(* the Value index !T "a" then reached the Tagged key's entry              *)
C17_Witness ==
    /\ calls > 0
    /\ result = "none"
    /\ last.op = "index_mut"
    /\ last.index = Val(Tagged("T", String("a")))
    /\ last.at = <<>>
    /\ root.t = "Mapping"
    /\ Len(root.map) = 2
    /\ root.map[1].k = String("a")
    /\ root.map[2].k = Tagged("T", String("a"))
    /\ wr = <<2>>

====
